---------------------------- MODULE Spec2Model ----------------------------
(***************************************************************************)
(* red-alert-meshtastic: the poll loop of src/main.rs and the feed client  *)
(* and alert normalizer of src/api.rs.                                     *)
(*                                                                         *)
(* Text the program inspects character by character (alert labels, city    *)
(* names, category codes, the probe's stdout) is a sequence of one-        *)
(* character strings.  Text it only compares for equality (region labels)  *)
(* is a plain string.  An Option<T> is a sequence of length at most one.   *)
(***************************************************************************)
EXTENDS Integers, Sequences, FiniteSets, TLC

None == <<>>
Some(v) == <<v>>

---------------------------------------------------------------------------
(* Text helpers: str::contains, str::to_lowercase, str::trim.              *)

Contains(s, sub) ==
    \E i \in 1..(Len(s) - Len(sub) + 1) : SubSeq(s, i, i + Len(sub) - 1) = sub

UpperCase == <<"A","B","C","D","E","F","G","H","I","J","K","L","M",
               "N","O","P","Q","R","S","T","U","V","W","X","Y","Z">>
LowerCase == <<"a","b","c","d","e","f","g","h","i","j","k","l","m",
               "n","o","p","q","r","s","t","u","v","w","x","y","z">>

LowerOf ==
    [c \in {UpperCase[i] : i \in 1..Len(UpperCase)} |->
        LowerCase[CHOOSE i \in 1..Len(UpperCase) : UpperCase[i] = c]]

LowerChar(c) == IF c \in DOMAIN LowerOf THEN LowerOf[c] ELSE c

ToLowercase(s) == [i \in 1..Len(s) |-> LowerChar(s[i])]

WhiteSpace == {" ", "\t", "\n", "\r"}

RECURSIVE TrimStart(_)
TrimStart(s) ==
    IF s # <<>> /\ Head(s) \in WhiteSpace THEN TrimStart(Tail(s)) ELSE s

RECURSIVE TrimEnd(_)
TrimEnd(s) ==
    IF s # <<>> /\ s[Len(s)] \in WhiteSpace
    THEN TrimEnd(SubSeq(s, 1, Len(s) - 1))
    ELSE s

Trim(s) == TrimEnd(TrimStart(s))

---------------------------------------------------------------------------
(* str::parse::<u32>: an optional '+', then one or more decimal digits,    *)
(* and an error on any other character or on a value above u32::MAX.       *)

Digits == <<"0","1","2","3","4","5","6","7","8","9">>

IsDigit(c) == \E i \in 1..10 : Digits[i] = c
DigitVal(c) == (CHOOSE i \in 1..10 : Digits[i] = c) - 1

RECURSIVE StripZeros(_)
StripZeros(s) == IF s # <<>> /\ Head(s) = "0" THEN StripZeros(Tail(s)) ELSE s

RECURSIVE DecimalValue(_)
DecimalValue(s) ==
    IF s = <<>> THEN 0
    ELSE 10 * DecimalValue(SubSeq(s, 1, Len(s) - 1)) + DigitVal(s[Len(s)])

U32MaxDigits == <<"4","2","9","4","9","6","7","2","9","5">>

RECURSIVE DigitsLeq(_, _)
DigitsLeq(a, b) ==
    IF a = <<>> THEN TRUE
    ELSE IF DigitVal(Head(a)) # DigitVal(Head(b))
         THEN DigitVal(Head(a)) < DigitVal(Head(b))
         ELSE DigitsLeq(Tail(a), Tail(b))

\* Every table arm is below 1000, so a value of ten significant digits that
\* still fits in a u32 is reported as 10^9: it matches no arm either way.
ParseU32(s) ==
    LET body == IF s # <<>> /\ Head(s) = "+" THEN Tail(s) ELSE s
        sig  == StripZeros(body)
    IN  IF body = <<>> \/ \E i \in 1..Len(body) : ~IsDigit(body[i])
        THEN [ok |-> FALSE, v |-> 0]
        ELSE IF Len(sig) > 10 \/ (Len(sig) = 10 /\ ~DigitsLeq(sig, U32MaxDigits))
        THEN [ok |-> FALSE, v |-> 0]
        ELSE IF Len(sig) = 10
        THEN [ok |-> TRUE, v |-> 1000000000]
        ELSE [ok |-> TRUE, v |-> DecimalValue(sig)]

---------------------------------------------------------------------------
(* Alert labels.                                                           *)

S_none == <<"n","o","n","e">>
S_unknown == <<"u","n","k","n","o","w","n">>
S_missiles == <<"m","i","s","s","i","l","e","s">>
S_general == <<"g","e","n","e","r","a","l">>
S_earthQuake == <<"e","a","r","t","h","Q","u","a","k","e">>
S_radiologicalEvent ==
    <<"r","a","d","i","o","l","o","g","i","c","a","l","E","v","e","n","t">>
S_tsunami == <<"t","s","u","n","a","m","i">>
S_hostileAircraftIntrusion ==
    <<"h","o","s","t","i","l","e","A","i","r","c","r","a","f","t",
      "I","n","t","r","u","s","i","o","n">>
S_hazardousMaterials ==
    <<"h","a","z","a","r","d","o","u","s","M","a","t","e","r","i","a","l","s">>
S_terroristInfiltration ==
    <<"t","e","r","r","o","r","i","s","t","I","n","f","i","l","t","r","a","t","i","o","n">>
S_Drill == <<"D","r","i","l","l">>
S_drill == <<"d","r","i","l","l">>
S_test == <<"t","e","s","t">>

get_alert_type_by_category(category) ==
    LET p == ParseU32(category)
    IN  IF ~p.ok THEN S_unknown
        ELSE CASE p.v = 1   -> S_missiles
               [] p.v = 2   -> S_general
               [] p.v = 3   -> S_earthQuake
               [] p.v = 4   -> S_radiologicalEvent
               [] p.v = 5   -> S_tsunami
               [] p.v = 6   -> S_hostileAircraftIntrusion
               [] p.v = 7   -> S_hazardousMaterials
               [] p.v = 13  -> S_terroristInfiltration
               [] p.v = 101 -> S_missiles \o S_Drill
               [] p.v = 102 -> S_general \o S_Drill
               [] p.v = 103 -> S_earthQuake \o S_Drill
               [] p.v = 104 -> S_radiologicalEvent \o S_Drill
               [] p.v = 105 -> S_tsunami \o S_Drill
               [] p.v = 106 -> S_hostileAircraftIntrusion \o S_Drill
               [] p.v = 107 -> S_hazardousMaterials \o S_Drill
               [] p.v = 113 -> S_terroristInfiltration \o S_Drill
               [] OTHER     -> S_unknown

\* The historical lookup done in the live table.
get_alert_type_by_historical_category_LiveTable(category) ==
    get_alert_type_by_category(category)

get_alert_type_by_historical_category(category) ==
    LET p == ParseU32(category)
    IN  IF ~p.ok THEN S_unknown
        ELSE CASE p.v = 1  -> S_missiles
               [] p.v = 2  -> S_hostileAircraftIntrusion
               [] p.v = 3  -> S_general
               [] p.v = 4  -> S_general
               [] p.v = 7  -> S_earthQuake
               [] p.v = 9  -> S_radiologicalEvent
               [] p.v = 10 -> S_terroristInfiltration
               [] p.v = 11 -> S_tsunami
               [] p.v = 12 -> S_hazardousMaterials
               [] OTHER    -> S_unknown

---------------------------------------------------------------------------
(* serde_json::Value as the code inspects it.  A JSON member is a record   *)
(* [k, s, l]: k its kind, s the characters of a string or number, l the    *)
(* elements of an array of strings.  A payload is [shape, data, cat, desc, *)
(* type, cities, entries]: the members of an object, or the entries of an  *)
(* array.                                                                  *)

Absent  == [k |-> "absent", s |-> <<>>, l |-> <<>>]
Null    == [k |-> "null", s |-> <<>>, l |-> <<>>]
Str(s)  == [k |-> "string", s |-> s, l |-> <<>>]
Num(s)  == [k |-> "number", s |-> s, l |-> <<>>]
Strs(l) == [k |-> "strings", s |-> <<>>, l |-> l]

Object(data, cat, desc) ==
    [shape |-> "object", data |-> data, cat |-> cat, desc |-> desc,
     type |-> Absent, cities |-> Absent, entries |-> <<>>]
Array(entries) ==
    [shape |-> "array", data |-> Absent, cat |-> Absent, desc |-> Absent,
     type |-> Absent, cities |-> Absent, entries |-> entries]
Scalar ==
    [shape |-> "scalar", data |-> Absent, cat |-> Absent, desc |-> Absent,
     type |-> Absent, cities |-> Absent, entries |-> <<>>]

\* json!({"type": "none", "cities": []})
EmptyAlertPayload ==
    [shape |-> "object", data |-> Absent, cat |-> Absent, desc |-> Absent,
     type |-> Str(S_none), cities |-> Strs(<<>>), entries |-> <<>>]

\* Deserialize for Option<String> and Option<Vec<String>>: a missing member
\* and null are None, a member of the right type is Some, anything else is
\* an error.
OptString(f) ==
    CASE f.k \in {"absent", "null"} -> [ok |-> TRUE, v |-> None]
      [] f.k = "string"             -> [ok |-> TRUE, v |-> Some(f.s)]
      [] OTHER                      -> [ok |-> FALSE, v |-> None]

OptStrings(f) ==
    CASE f.k \in {"absent", "null"} -> [ok |-> TRUE, v |-> None]
      [] f.k = "strings"            -> [ok |-> TRUE, v |-> Some(f.l)]
      [] OTHER                      -> [ok |-> FALSE, v |-> None]

\* "בדיקה"
TestMarker == <<"ב","ד","י","ק","ה">>

AlertResult(alert_type, cities, instructions) ==
    [alert_type |-> alert_type, cities |-> cities, instructions |-> instructions]

NoAlert == AlertResult(S_none, <<>>, None)

\* Result<AlertResult, _>, or the panic that ends the process.
Ok(alert)  == [st |-> "ok", alert |-> alert, err |-> ""]
Err(e)     == [st |-> "err", alert |-> NoAlert, err |-> e]
Panic(e)   == [st |-> "panic", alert |-> NoAlert, err |-> e]

InSeq(v, seq) == \E i \in 1..Len(seq) : seq[i] = v

\* The loop over alert_data.cities without its test-marker skip.
RECURSIVE LiveCities_KeepsTest(_, _)
LiveCities_KeepsTest(cities, acc) ==
    IF cities = <<>> THEN acc
    ELSE LET city == Trim(Head(cities))
         IN  IF ~InSeq(city, acc)
             THEN LiveCities_KeepsTest(Tail(cities), Append(acc, city))
             ELSE LiveCities_KeepsTest(Tail(cities), acc)

\* The loop over alert_data.cities working on the entries as they come,
\* untrimmed.
RECURSIVE LiveCities_NoTrim(_, _)
LiveCities_NoTrim(cities, acc) ==
    IF cities = <<>> THEN acc
    ELSE LET city == Head(cities)
         IN  IF Contains(city, TestMarker) THEN LiveCities_NoTrim(Tail(cities), acc)
             ELSE IF ~InSeq(city, acc)
                  THEN LiveCities_NoTrim(Tail(cities), Append(acc, city))
                  ELSE LiveCities_NoTrim(Tail(cities), acc)

\* The loop over alert_data.cities: trim, skip test entries, push if new.
RECURSIVE LiveCities(_, _)
LiveCities(cities, acc) ==
    IF cities = <<>> THEN acc
    ELSE LET city == Trim(Head(cities))
         IN  IF Contains(city, TestMarker) THEN LiveCities(Tail(cities), acc)
             ELSE IF ~InSeq(city, acc)
                  THEN LiveCities(Tail(cities), Append(acc, city))
                  ELSE LiveCities(Tail(cities), acc)

\* chrono::DateTime::parse_from_rfc3339(..).timestamp().  A date text is a
\* format character and the decimal digits of the second it names: "T" for
\* an RFC 3339 text, anything else for a text chrono rejects (the feed's own
\* "YYYY-MM-DD HH:MM:SS").
ParseRfc3339(date) ==
    IF date # <<>> /\ Head(date) = "T"
       /\ Len(date) > 1 /\ \A i \in 2..Len(date) : IsDigit(date[i])
    THEN [ok |-> TRUE, timestamp |-> DecimalValue(Tail(date))]
    ELSE [ok |-> FALSE, timestamp |-> 0]

\* Deserialize for Vec<HistoryAlert>: every member of every entry has to be
\* a string, null or missing.
HistoryDeserializes(history) ==
    \A i \in 1..Len(history) :
        /\ OptString(history[i].alertDate).ok
        /\ OptString(history[i].data).ok
        /\ OptString(history[i].category).ok

\* The loop over history without its age test.
RECURSIVE HistoryLoop_NoStaleCheck(_, _, _, _)
HistoryLoop_NoStaleCheck(history, alert, now, build) ==
    IF history = <<>> THEN Ok(alert)
    ELSE LET item == Head(history)
             rest == Tail(history)
             d    == OptString(item.alertDate).v
             c    == OptString(item.data).v
             g    == OptString(item.category).v
         IN  IF d = None \/ c = None \/ g = None
             THEN HistoryLoop_NoStaleCheck(rest, alert, now, build)
             ELSE LET parsed  == ParseRfc3339(d[1])
                      trimmed == Trim(c[1])
                  IN  IF ~parsed.ok THEN Err("chrono")
                      ELSE IF Contains(trimmed, TestMarker)
                      THEN HistoryLoop_NoStaleCheck(rest, alert, now, build)
                      ELSE HistoryLoop_NoStaleCheck(rest,
                               AlertResult(
                                   get_alert_type_by_historical_category(g[1]),
                                   IF ~InSeq(trimmed, alert.cities)
                                   THEN Append(alert.cities, trimmed)
                                   ELSE alert.cities,
                                   None),
                               now, build)

\* The loop over history.  now - alert_time is a u64 subtraction: when
\* alert_time is later than now a debug build panics and a release build
\* wraps to a value far above 120.
RECURSIVE HistoryLoop(_, _, _, _)
HistoryLoop(history, alert, now, build) ==
    IF history = <<>> THEN Ok(alert)
    ELSE LET item == Head(history)
             rest == Tail(history)
             d    == OptString(item.alertDate).v
             c    == OptString(item.data).v
             g    == OptString(item.category).v
         IN  IF d = None \/ c = None \/ g = None
             THEN HistoryLoop(rest, alert, now, build)
             ELSE LET parsed     == ParseRfc3339(d[1])
                      alert_time == parsed.timestamp \div 1000
                      trimmed    == Trim(c[1])
                  IN  IF ~parsed.ok THEN Err("chrono")
                      ELSE IF alert_time > now /\ build = "debug"
                      THEN Panic("attempt to subtract with overflow")
                      ELSE IF alert_time > now \/ now - alert_time > 120
                      THEN HistoryLoop(rest, alert, now, build)
                      ELSE IF Contains(trimmed, TestMarker)
                      THEN HistoryLoop(rest, alert, now, build)
                      ELSE HistoryLoop(rest,
                               AlertResult(
                                   get_alert_type_by_historical_category(g[1]),
                                   IF ~InSeq(trimmed, alert.cities)
                                   THEN Append(alert.cities, trimmed)
                                   ELSE alert.cities,
                                   None),
                               now, build)

extract_alert_from_history_json(json, now, build) ==
    IF ~HistoryDeserializes(json.entries) THEN Err("serde")
    ELSE HistoryLoop(json.entries, NoAlert, now, build)

extract_alert_from_json(json, now, build) ==
    IF json.shape = "array" THEN extract_alert_from_history_json(json, now, build)
    ELSE LET cities       == OptStrings(json.data)
             category     == OptString(json.cat)
             instructions == OptString(json.desc)
         IN  IF json.shape # "object" \/ ~cities.ok \/ ~category.ok \/ ~instructions.ok
             THEN Err("serde")
             ELSE Ok(AlertResult(
                        IF category.v # None
                        THEN get_alert_type_by_category(category.v[1])
                        ELSE S_none,
                        IF cities.v # None THEN LiveCities(cities.v[1], <<>>) ELSE <<>>,
                        instructions.v))

---------------------------------------------------------------------------
(* The feed client.  An HTTP exchange is [net, status, read_ok, text,      *)
(* json]: whether the request got a response, its status, whether the body *)
(* could be read, the body's characters, and what serde_json::from_str     *)
(* makes of them (None: not JSON).                                         *)

StatusOK == 200

JsonOk(json) == [st |-> "ok", json |-> json, err |-> ""]
JsonErr(e)   == [st |-> "err", json |-> EmptyAlertPayload, err |-> e]

\* Value::get("data"): None for anything but an object holding the member.
GetData(json) == IF json.shape = "object" /\ json.data.k # "absent"
                 THEN Some(json.data) ELSE None

\* A status other than 200 surfacing as an error instead of the empty alert.
get_hfc_alerts_json_StatusError(resp) ==
    IF resp.net # "ok" THEN JsonOk(EmptyAlertPayload)
    ELSE IF resp.status # StatusOK THEN JsonErr("status")
    ELSE IF ~resp.read_ok THEN JsonErr("body")
    ELSE IF Trim(resp.text) = <<>> THEN JsonOk(EmptyAlertPayload)
    ELSE IF resp.json = None THEN JsonErr("Failed to parse the response body as JSON")
    ELSE IF GetData(resp.json[1]) = None THEN JsonOk(EmptyAlertPayload)
    ELSE JsonOk(resp.json[1])

get_hfc_alerts_json(resp) ==
    IF resp.net # "ok" THEN JsonOk(EmptyAlertPayload)
    ELSE IF resp.status # StatusOK THEN JsonOk(EmptyAlertPayload)
    ELSE IF ~resp.read_ok THEN JsonErr("body")
    ELSE IF Trim(resp.text) = <<>> THEN JsonOk(EmptyAlertPayload)
    ELSE IF resp.json = None THEN JsonErr("Failed to parse the response body as JSON")
    ELSE IF GetData(resp.json[1]) = None THEN JsonOk(EmptyAlertPayload)
    ELSE JsonOk(resp.json[1])

fetch_alert(resp, now, build) ==
    LET json == get_hfc_alerts_json(resp)
    IN  IF json.st # "ok" THEN Err(json.err)
        ELSE extract_alert_from_json(json.json, now, build)

---------------------------------------------------------------------------
(* The gazetteer and the zone resolver.                                    *)

get_zone_number(zone_en) ==
    CASE zone_en \in {"Upper Galilee", "Confrontation Line", "North Golan",
                      "South Golan", "Center Galilee"}            -> Some(1)
      [] zone_en \in {"HaMifratz", "HaCarmel", "Menashe"}         -> Some(2)
      [] zone_en \in {"Lower Galilee", "Beit She'an Valley", "HaAmakim",
                      "Wadi Ara"}                                 -> Some(3)
      [] zone_en \in {"Sharon", "Yarkon", "Dan"}                  -> Some(4)
      [] zone_en \in {"Shomron", "Jerusalem", "Yehuda", "Shfelat Yehuda",
                      "Bika'a"}                                   -> Some(5)
      [] zone_en \in {"Gaza Envelope", "West Lachish", "Lachish",
                      "HaShfela"}                                 -> Some(6)
      [] zone_en \in {"West Negev", "Center Negev", "South Negev",
                      "Dead Sea", "Arava", "Eilat"}               -> Some(7)
      [] OTHER                                                    -> None

\* The name comparison ignoring case.
RECURSIVE find_zone_for_city_IgnoreCase(_, _)
find_zone_for_city_IgnoreCase(cities, city_name_he) ==
    IF cities = <<>> THEN None
    ELSE IF ToLowercase(Head(cities).name) = ToLowercase(city_name_he)
         THEN get_zone_number(Head(cities).zone_en)
         ELSE find_zone_for_city_IgnoreCase(Tail(cities), city_name_he)

RECURSIVE find_zone_for_city(_, _)
find_zone_for_city(cities, city_name_he) ==
    IF cities = <<>> THEN None
    ELSE IF Head(cities).name = city_name_he
         THEN get_zone_number(Head(cities).zone_en)
         ELSE find_zone_for_city(Tail(cities), city_name_he)

\* The HashSet process_alert fills from the alert's cities.
ValidZones(cities, alert_cities) ==
    { find_zone_for_city(cities, alert_cities[i])[1] :
        i \in { j \in 1..Len(alert_cities) :
                    find_zone_for_city(cities, alert_cities[j]) # None } }

---------------------------------------------------------------------------
(* process_alert's decisions.                                              *)

\* !alert_type.contains("none") guards the whole dispatch.
IsNone(alert_type) == Contains(alert_type, S_none)

\* The drill/test check without to_lowercase().
IsDrillOrTest_CaseSensitive(alert_type) ==
    \/ Contains(alert_type, S_drill)
    \/ Contains(alert_type, S_test)

IsDrillOrTest(alert_type) ==
    \/ Contains(ToLowercase(alert_type), S_drill)
    \/ Contains(ToLowercase(alert_type), S_test)

\* {:?} of a String: the text in double quotes, with escapes.
RECURSIVE EscapeDebug(_)
EscapeDebug(s) ==
    IF s = <<>> THEN <<>>
    ELSE (CASE Head(s) = "\"" -> <<"\\", "\"">>
            [] Head(s) = "\\" -> <<"\\", "\\">>
            [] Head(s) = "\n" -> <<"\\", "n">>
            [] Head(s) = "\r" -> <<"\\", "r">>
            [] Head(s) = "\t" -> <<"\\", "t">>
            [] OTHER          -> <<Head(s)>>) \o EscapeDebug(Tail(s))

\* The police-car-light character that opens every message, U+1F6A8.
Siren == "U+1F6A8"

FormatMessage(alert) ==
    IF alert.instructions # None
    THEN <<Siren>> \o alert.alert_type \o <<" ", "-", " ">>
         \o <<"\"">> \o EscapeDebug(alert.instructions[1]) \o <<"\"">>
    ELSE <<Siren>> \o alert.alert_type

BroadcastChannel == 0
AllZonesThreshold == 6

\* The broadcast threshold off by one: six zones already broadcast.
Channels_AtLeastSix(valid_zones) ==
    IF Cardinality(valid_zones) >= AllZonesThreshold
    THEN {BroadcastChannel}
    ELSE valid_zones

\* The channels of one cycle: the broadcast channel alone, or the zones.
Channels(valid_zones) ==
    IF Cardinality(valid_zones) > AllZonesThreshold
    THEN {BroadcastChannel}
    ELSE valid_zones

Retries == 3
RetryDelay == 5
MinSendInterval == 10
TickPeriod == 5

---------------------------------------------------------------------------
(* check_node_connection: the probe's outcome is [run_ok, stdout].         *)

S_ConnectedToRadio ==
    <<"C","o","n","n","e","c","t","e","d"," ","t","o"," ","r","a","d","i","o">>
S_Error == <<"E","r","r","o","r">>

\* str::lines().next(): nothing for empty text, else the characters before
\* the first line feed, without a carriage return that ends them.
RECURSIVE UpToLineFeed(_)
UpToLineFeed(s) ==
    IF s = <<>> \/ Head(s) = "\n" THEN <<>>
    ELSE <<Head(s)>> \o UpToLineFeed(Tail(s))

FirstLine(stdout) ==
    IF stdout = <<>> THEN None
    ELSE LET line == UpToLineFeed(stdout)
         IN  IF line # <<>> /\ line[Len(line)] = "\r"
                /\ Len(line) < Len(stdout)
             THEN Some(SubSeq(line, 1, Len(line) - 1))
             ELSE Some(line)

\* The first line only having to start with the sentinel.
check_node_connection_Prefix(probe) ==
    IF ~probe.run_ok THEN "exit"
    ELSE IF Contains(probe.stdout, S_Error) THEN "exit"
    ELSE IF FirstLine(probe.stdout) = None THEN "exit"
    ELSE IF Len(FirstLine(probe.stdout)[1]) >= Len(S_ConnectedToRadio)
            /\ SubSeq(FirstLine(probe.stdout)[1], 1, Len(S_ConnectedToRadio))
               = S_ConnectedToRadio
    THEN "ok"
    ELSE "exit"

\* "ok" when the function returns Ok(()), "exit" when it calls exit(1).
check_node_connection(probe) ==
    IF ~probe.run_ok THEN "exit"
    ELSE IF Contains(probe.stdout, S_Error) THEN "exit"
    ELSE IF FirstLine(probe.stdout) = None THEN "exit"
    ELSE IF FirstLine(probe.stdout)[1] = S_ConnectedToRadio THEN "ok"
    ELSE "exit"

---------------------------------------------------------------------------
(* The inputs: the bundled gazetteer, the probe's outcomes, the feed's     *)
(* responses and the transport's outcomes.                                 *)

City(name, zone_en) == [name |-> name, zone_en |-> zone_en]

S_TelAviv == <<"T","e","l"," ","A","v","i","v">>

\* cities.json: a name the file lists twice resolves by its first entry, and
\* a region the zone table does not list gives the city no zone.
Gazetteer ==
    << City(<<"A">>, "Upper Galilee"), City(<<"B">>, "HaCarmel"),
       City(<<"C">>, "Wadi Ara"),      City(<<"D">>, "Dan"),
       City(<<"E">>, "Jerusalem"),     City(<<"F">>, "Lachish"),
       City(<<"G">>, "Eilat"),         City(<<"X">>, "Atlantis"),
       City(<<"D">>, "Eilat"),         City(S_TelAviv, "Yarkon") >>

LoadOutcomes == {"ok", "missing", "invalid"}

Probe(run_ok, stdout) == [run_ok |-> run_ok, stdout |-> stdout]

ProbeOutcomes ==
    { Probe(FALSE, <<>>),
      Probe(TRUE, <<>>),
      Probe(TRUE, S_ConnectedToRadio),
      Probe(TRUE, S_ConnectedToRadio \o <<"\r", "\n", "O", "k", "\n">>),
      Probe(TRUE, S_ConnectedToRadio \o <<"\n">> \o S_Error \o <<"\n">>),
      Probe(TRUE, S_ConnectedToRadio \o <<"!", "\n">>),
      Probe(TRUE, <<"\n">> \o S_ConnectedToRadio \o <<"\n">>),
      Probe(TRUE, S_Error \o <<":", " ", "n", "o", " ", "n", "o", "d", "e", "\n">>) }

Response(net, status, read_ok, text, json) ==
    [net |-> net, status |-> status, read_ok |-> read_ok, text |-> text, json |-> json]

NoResponse == Response("none", 0, FALSE, <<>>, None)

\* A body that is JSON; its characters stand for any text that is not blank.
JsonBody(json) == Response("ok", StatusOK, TRUE, <<"{", "}">>, Some(json))

S_RocketFire == <<"R","o","c","k","e","t"," ","f","i","r","e">>
S_TestCity == <<"T","e","s","t"," ","C","i","t","y"," ","-"," ">> \o TestMarker

FailureResponses ==
    { Response("error", 0, FALSE, <<>>, None),
      Response("ok", 503, TRUE, <<"x">>, None),
      Response("ok", 204, TRUE, <<>>, None),
      Response("ok", StatusOK, TRUE, <<>>, None),
      Response("ok", StatusOK, TRUE, <<" ", "\r", "\n">>, None),
      JsonBody(Object(Absent, Str(<<"1">>), Absent)),
      JsonBody(Array(<<[alertDate |-> Str(<<"T", "5">>), data |-> Str(<<"D">>),
                        category |-> Str(<<"1">>)]>>)),
      JsonBody(Scalar) }

ErrorResponses ==
    { Response("ok", StatusOK, FALSE, <<>>, None),
      Response("ok", StatusOK, TRUE, <<"<", "h", "t", "m", "l", ">">>, None),
      JsonBody(Object(Str(<<"D">>), Str(<<"1">>), Absent)),
      JsonBody(Object(Strs(<<<<"D">>>>), Num(<<"1">>), Absent)) }

LiveResponses ==
    { JsonBody(Object(Strs(<<S_TelAviv>>), Str(<<"1">>), Str(S_RocketFire))),
      JsonBody(Object(Strs(<<S_TestCity>>), Str(<<"1">>), Absent)),
      JsonBody(Object(Strs(<<<<"A">>, <<"B">>, <<"C">>, <<"D">>, <<"E">>,
                             <<"F">>, <<"G">>>>), Str(<<"1">>), Absent)),
      JsonBody(Object(Strs(<<<<"A">>, <<"B">>, <<"C">>, <<"D">>, <<"E">>,
                             <<"F">>, <<"X">>>>), Str(<<"5">>), Absent)),
      JsonBody(Object(Strs(<<<<" ", "D", " ">>, <<"D">>, <<"Q">>, <<"A", "\n">>>>),
                      Str(<<"2">>), Null)),
      JsonBody(Object(Strs(<<<<"D">>>>), Str(<<"1", "0", "1">>), Absent)),
      JsonBody(Object(Strs(<<<<"D">>>>), Absent, Absent)),
      JsonBody(Object(Strs(<<<<"D">>>>), Str(<<"9", "9">>), Absent)),
      JsonBody(Object(Null, Str(<<"1">>), Absent)),
      JsonBody(Object(Strs(<<<<"X">>, <<"Q">>, <<"d">>>>), Str(<<"1">>), Absent)) }

Responses == FailureResponses \cup ErrorResponses \cup LiveResponses

\* One run of the radio program: it could not be started, or it ran and
\* exited with a success or a failure status.
TransportOutcomes == {"spawn_error", "exit_success", "exit_failure"}

Builds == {"debug", "release"}

\* SystemTime::now() when the process starts, in seconds.
StartEpoch == 2000000

MaxCycles == 2

---------------------------------------------------------------------------
(* The state of the process.                                               *)

VARIABLES
    pc,          \* where main is: "start", "probe", "tick", "fetched",
                 \* "send", "spawn", "returned", "exited", "panicked"
    now,         \* seconds since the process started
    cycle,       \* ticks of the interval consumed so far
    cities,      \* main's cities: None until load_cities has returned
    first_line,  \* the first line of the probe's output, once it has run
    sender,      \* MessageSender: [last_message_time]
    resp,        \* the HTTP exchange of the cycle in progress
    alert,       \* process_alert's alert_result
    message,     \* process_alert's message
    valid_zones, \* process_alert's valid_zones
    pending,     \* the channels the cycle has not sent to yet
    chan,        \* send_message_with_retry's chan
    attempt,     \* send_message_with_retry's attempt
    tries,       \* the attempts of the send in progress: [outcome, t]
    sent,        \* channel -> runs of the radio program in this cycle
    result,      \* what process_alert returned: "none", "ok", "err"
    invoked      \* when the radio program last ran: at most two instants

vars == <<pc, now, cycle, cities, first_line, sender, resp, alert, message,
          valid_zones, pending, chan, attempt, tries, sent, result, invoked>>

ChannelIds == 0..7

NothingSent == [c \in ChannelIds |-> 0]

\* MessageSender::new()
NewSender == [last_message_time |-> None]

\* process_alert's locals before a call and after it has returned.
CycleIdle ==
    /\ resp = NoResponse
    /\ alert = NoAlert
    /\ message = <<>>
    /\ valid_zones = {}
    /\ pending = {}
    /\ chan = 0
    /\ attempt = 0
    /\ tries = <<>>
    /\ sent = NothingSent
    /\ result = "none"

Init ==
    /\ pc = "start"
    /\ now = 0
    /\ cycle = 0
    /\ cities = None
    /\ first_line = None
    /\ sender = NewSender
    /\ invoked = <<>>
    /\ CycleIdle

cycleVars == <<resp, alert, message, valid_zones, pending, chan, attempt,
               tries, sent, result>>

\* main, line 318: load_cities().await? returns from main on an error.
LoadCities ==
    /\ pc = "start"
    /\ \E outcome \in LoadOutcomes :
          IF outcome = "ok"
          THEN pc' = "probe" /\ cities' = Some(Gazetteer)
          ELSE pc' = "exited" /\ cities' = None
    /\ UNCHANGED <<now, cycle, first_line, sender, invoked, cycleVars>>

\* main, lines 321-331: the probe, then the sender and the interval.
CheckNodeConnection ==
    /\ pc = "probe"
    /\ \E probe \in ProbeOutcomes :
          /\ pc' = IF check_node_connection(probe) = "ok" THEN "tick" ELSE "exited"
          /\ first_line' = IF probe.run_ok THEN FirstLine(probe.stdout) ELSE None
    /\ sender' = NewSender
    /\ UNCHANGED <<now, cycle, cities, invoked, cycleVars>>

Max(a, b) == IF a >= b THEN a ELSE b

\* The interval's tick taken while process_alert is still between two sends,
\* as if the cycle ran as a task of its own.
Tick_WhileDispatching ==
    /\ pc \in {"tick", "send"}
    /\ cycle < MaxCycles
    /\ now' = Max(now, TickPeriod * cycle)
    /\ cycle' = cycle + 1
    /\ \E r \in Responses : resp' = r
    /\ pc' = "fetched"
    /\ UNCHANGED <<cities, first_line, sender, invoked, alert, message,
                   valid_zones, pending, chan, attempt, tries, sent, result>>

\* interval.tick().await, then fetch_alert's HTTP exchange.  Tick k is due
\* TickPeriod * k after the first; a tick that is overdue completes at once.
Tick ==
    /\ pc = "tick"
    /\ cycle < MaxCycles
    /\ now' = Max(now, TickPeriod * cycle)
    /\ cycle' = cycle + 1
    /\ \E r \in Responses : resp' = r
    /\ pc' = "fetched"
    /\ UNCHANGED <<cities, first_line, sender, invoked, alert, message,
                   valid_zones, pending, chan, attempt, tries, sent, result>>

\* process_alert returning without a send when the last send was less than
\* MinSendInterval ago, instead of leaving the wait to the sender.
ProcessAlert_DropsWhenRecentlySent ==
    /\ pc = "fetched"
    /\ \E build \in Builds :
        LET fetched == fetch_alert(resp, StartEpoch + now, build)
            zones   == ValidZones(cities[1], fetched.alert.cities)
            recent  == /\ sender.last_message_time # None
                       /\ now - sender.last_message_time[1] < MinSendInterval
        IN  IF fetched.st # "ok"
            THEN /\ pc' = "panicked"
                 /\ UNCHANGED <<alert, message, valid_zones, pending, result>>
            ELSE /\ alert' = fetched.alert
                 /\ IF IsNone(fetched.alert.alert_type)
                       \/ IsDrillOrTest(fetched.alert.alert_type)
                       \/ recent
                    THEN /\ pc' = "returned"
                         /\ result' = "ok"
                         /\ UNCHANGED <<message, valid_zones, pending>>
                    ELSE /\ valid_zones' = zones
                         /\ message' = FormatMessage(fetched.alert)
                         /\ pending' = Channels(zones)
                         /\ IF Channels(zones) = {}
                            THEN pc' = "returned" /\ result' = "ok"
                            ELSE pc' = "send" /\ UNCHANGED result
    /\ UNCHANGED <<now, cycle, cities, first_line, sender, invoked, resp,
                   chan, attempt, tries, sent>>

\* process_alert, lines 260-287: unwrap the fetched alert, apply the
\* suppression rule, resolve the zones, format the message and pick the
\* channels.  With no channel to send to it returns Ok(()).
ProcessAlert ==
    /\ pc = "fetched"
    /\ \E build \in Builds :
        LET fetched == fetch_alert(resp, StartEpoch + now, build)
            zones   == ValidZones(cities[1], fetched.alert.cities)
        IN  IF fetched.st # "ok"
            THEN /\ pc' = "panicked"
                 /\ UNCHANGED <<alert, message, valid_zones, pending, result>>
            ELSE /\ alert' = fetched.alert
                 /\ IF IsNone(fetched.alert.alert_type)
                       \/ IsDrillOrTest(fetched.alert.alert_type)
                    THEN /\ pc' = "returned"
                         /\ result' = "ok"
                         /\ UNCHANGED <<message, valid_zones, pending>>
                    ELSE /\ valid_zones' = zones
                         /\ message' = FormatMessage(fetched.alert)
                         /\ pending' = Channels(zones)
                         /\ IF Channels(zones) = {}
                            THEN pc' = "returned" /\ result' = "ok"
                            ELSE pc' = "send" /\ UNCHANGED result
    /\ UNCHANGED <<now, cycle, cities, first_line, sender, invoked, resp,
                   chan, attempt, tries, sent>>

\* The pacing sleep lasting the elapsed time instead of the time missing.
PacingWake_SleepsElapsed(last_message_time, t) ==
    IF last_message_time # None /\ t - last_message_time[1] < MinSendInterval
    THEN t + (t - last_message_time[1])
    ELSE t

\* send_message_with_retry, lines 106-111: when the pacing sleep of a send
\* requested at t ends.
PacingWake(last_message_time, t) ==
    IF last_message_time # None /\ t - last_message_time[1] < MinSendInterval
    THEN t + (MinSendInterval - (t - last_message_time[1]))
    ELSE t

\* The retry test off by one: the last attempt is retried too.
ShouldRetry_OneTooMany(n) == n <= Retries

\* for attempt in 0..=retries, line 131: a failed attempt is retried.
ShouldRetry(n) == n < Retries

\* The start of a send whose pacing sleep, when one is needed, never ends.
StartSend_NeverWakes ==
    /\ pc = "send"
    /\ PacingWake(sender.last_message_time, now) = now
    /\ \E c \in pending :
          /\ chan' = c
          /\ pending' = pending \ {c}
    /\ UNCHANGED now
    /\ attempt' = 0
    /\ tries' = <<>>
    /\ pc' = "spawn"
    /\ UNCHANGED <<cycle, cities, first_line, sender, invoked, resp, alert,
                   message, valid_zones, sent, result>>

\* send_message_with_retry for the next channel the loop over valid_zones
\* yields, up to its first attempt.
StartSend ==
    /\ pc = "send"
    /\ \E c \in pending :
          /\ chan' = c
          /\ pending' = pending \ {c}
    /\ now' = PacingWake(sender.last_message_time, now)
    /\ attempt' = 0
    /\ tries' = <<>>
    /\ pc' = "spawn"
    /\ UNCHANGED <<cycle, cities, first_line, sender, invoked, resp, alert,
                   message, valid_zones, sent, result>>

\* Whether command.spawn() returned Ok for a run with this outcome.
SpawnOk(outcome) == outcome # "spawn_error"

\* One pass of the attempt loop that records the time of the attempt whether
\* or not the radio program could be run.
Attempt_StampsFailedAttempt ==
    /\ pc = "spawn"
    /\ \E outcome \in TransportOutcomes :
          /\ tries' = Append(tries, [outcome |-> outcome, t |-> now])
          /\ sender' = [last_message_time |-> Some(now)]
          /\ IF SpawnOk(outcome)
             THEN /\ sent' = [sent EXCEPT ![chan] = @ + 1]
                  /\ invoked' = IF Len(invoked) < 2 THEN Append(invoked, now)
                                ELSE <<invoked[2], now>>
                  /\ IF pending = {}
                     THEN pc' = "returned" /\ result' = "ok"
                     ELSE pc' = "send" /\ UNCHANGED result
                  /\ UNCHANGED <<now, attempt, pending>>
             ELSE /\ IF ShouldRetry(attempt)
                     THEN /\ now' = now + RetryDelay
                          /\ attempt' = attempt + 1
                          /\ pc' = "spawn"
                          /\ UNCHANGED <<result, pending>>
                     ELSE /\ pc' = "returned"
                          /\ result' = "err"
                          /\ pending' = {}
                          /\ UNCHANGED <<now, attempt>>
                  /\ UNCHANGED <<sent, invoked>>
    /\ UNCHANGED <<cycle, cities, first_line, resp, alert, message,
                   valid_zones, chan>>

\* One pass of the attempt loop in a cycle that, when a send has used up
\* its attempts, goes on to the channels still pending.
Attempt_ContinuesAfterExhaustion ==
    /\ pc = "spawn"
    /\ \E outcome \in TransportOutcomes :
          /\ tries' = Append(tries, [outcome |-> outcome, t |-> now])
          /\ IF SpawnOk(outcome)
             THEN /\ sender' = [last_message_time |-> Some(now)]
                  /\ sent' = [sent EXCEPT ![chan] = @ + 1]
                  /\ invoked' = IF Len(invoked) < 2 THEN Append(invoked, now)
                                ELSE <<invoked[2], now>>
                  /\ IF pending = {}
                     THEN pc' = "returned" /\ result' = "ok"
                     ELSE pc' = "send" /\ UNCHANGED result
                  /\ UNCHANGED <<now, attempt, pending>>
             ELSE /\ IF ShouldRetry(attempt)
                     THEN /\ now' = now + RetryDelay
                          /\ attempt' = attempt + 1
                          /\ pc' = "spawn"
                          /\ UNCHANGED result
                     ELSE /\ IF pending = {}
                             THEN pc' = "returned" /\ result' = "err"
                             ELSE pc' = "send" /\ UNCHANGED result
                          /\ UNCHANGED <<now, attempt>>
                  /\ UNCHANGED <<sender, sent, invoked, pending>>
    /\ UNCHANGED <<cycle, cities, first_line, resp, alert, message,
                   valid_zones, chan>>

\* send_message_with_retry, lines 113-140: one pass of the attempt loop.
Attempt ==
    /\ pc = "spawn"
    /\ \E outcome \in TransportOutcomes :
          /\ tries' = Append(tries, [outcome |-> outcome, t |-> now])
          /\ IF SpawnOk(outcome)
             THEN /\ sender' = [last_message_time |-> Some(now)]
                  /\ sent' = [sent EXCEPT ![chan] = @ + 1]
                  /\ invoked' = IF Len(invoked) < 2 THEN Append(invoked, now)
                                ELSE <<invoked[2], now>>
                  /\ IF pending = {}
                     THEN pc' = "returned" /\ result' = "ok"
                     ELSE pc' = "send" /\ UNCHANGED result
                  /\ UNCHANGED <<now, attempt, pending>>
             ELSE /\ IF ShouldRetry(attempt)
                     THEN /\ now' = now + RetryDelay
                          /\ attempt' = attempt + 1
                          /\ pc' = "spawn"
                          /\ UNCHANGED <<result, pending>>
                     ELSE /\ pc' = "returned"
                          /\ result' = "err"
                          /\ pending' = {}
                          /\ UNCHANGED <<now, attempt>>
                  /\ UNCHANGED <<sender, sent, invoked>>
    /\ UNCHANGED <<cycle, cities, first_line, resp, alert, message,
                   valid_zones, chan>>

\* main, lines 338-340: log the error process_alert returned, if any, and
\* go round the loop; process_alert's locals are gone.
LoopBack ==
    /\ pc = "returned"
    /\ pc' = "tick"
    /\ resp' = NoResponse
    /\ alert' = NoAlert
    /\ message' = <<>>
    /\ valid_zones' = {}
    /\ pending' = {}
    /\ chan' = 0
    /\ attempt' = 0
    /\ tries' = <<>>
    /\ sent' = NothingSent
    /\ result' = "none"
    /\ UNCHANGED <<now, cycle, cities, first_line, sender, invoked>>

Next ==
    \/ LoadCities
    \/ CheckNodeConnection
    \/ Tick
    \/ ProcessAlert
    \/ StartSend
    \/ Attempt
    \/ LoopBack

Spec == Init /\ [][Next]_vars

\* The responses of the cycles whose delivery is followed to its end: an
\* alert for one zone, for two, for all seven, a drill, a failed request and
\* a body that is not JSON.
DeliveryResponses ==
    { JsonBody(Object(Strs(<<S_TelAviv>>), Str(<<"1">>), Str(S_RocketFire))),
      JsonBody(Object(Strs(<<<<" ", "D", " ">>, <<"D">>, <<"Q">>, <<"A", "\n">>>>),
                      Str(<<"2">>), Null)),
      JsonBody(Object(Strs(<<<<"A">>, <<"B">>, <<"C">>, <<"D">>, <<"E">>,
                             <<"F">>, <<"G">>>>), Str(<<"1">>), Absent)),
      JsonBody(Object(Strs(<<<<"D">>>>), Str(<<"1", "0", "1">>), Absent)),
      Response("error", 0, FALSE, <<>>, None),
      Response("ok", StatusOK, TRUE, <<"<", "h", "t", "m", "l", ">">>, None) }

\* Tick, with the response among DeliveryResponses.
TickDelivery ==
    /\ pc = "tick"
    /\ cycle < MaxCycles
    /\ now' = Max(now, TickPeriod * cycle)
    /\ cycle' = cycle + 1
    /\ \E r \in DeliveryResponses : resp' = r
    /\ pc' = "fetched"
    /\ UNCHANGED <<cities, first_line, sender, invoked, alert, message,
                   valid_zones, pending, chan, attempt, tries, sent, result>>

DeliveryNext ==
    \/ LoadCities
    \/ CheckNodeConnection
    \/ TickDelivery
    \/ ProcessAlert
    \/ StartSend
    \/ Attempt
    \/ LoopBack

\* The runtime polls main's one task whenever the future it awaits is
\* ready, and the futures of the loop and of a send become ready: a sleep
\* and the interval's tick after their time, the HTTP exchange within the
\* client's timeout, spawn() at once.  So the tick, the start of a send, an
\* attempt and the loop's going round are not put off forever once they can
\* be taken.
FairSpec ==
    /\ Init
    /\ [][DeliveryNext]_vars
    /\ WF_vars(TickDelivery)
    /\ WF_vars(StartSend)
    /\ WF_vars(Attempt)
    /\ WF_vars(LoopBack)

---------------------------------------------------------------------------
(* The normalizer on its own.  extract_alert_from_json is applied to a     *)
(* payload of either schema as it arrives, and process_alert's decision    *)
(* and sends follow on the alert it returns.                               *)

\* The category texts the tables are applied to: every code either table
\* lists, numbers neither lists, a number one above u32::MAX + 1, and texts
\* that are not numbers.
CategoryInputs ==
    { <<"1">>,
      <<"2">>,
      <<"3">>,
      <<"4">>,
      <<"5">>,
      <<"6">>,
      <<"7">>,
      <<"9">>,
      <<"1", "0">>,
      <<"1", "1">>,
      <<"1", "2">>,
      <<"1", "3">>,
      <<"1", "0", "1">>,
      <<"1", "0", "2">>,
      <<"1", "0", "3">>,
      <<"1", "0", "4">>,
      <<"1", "0", "5">>,
      <<"1", "0", "6">>,
      <<"1", "0", "7">>,
      <<"1", "1", "3">>,
      <<"0">>,
      <<"8">>,
      <<"9", "9">>,
      <<"3", "0", "0">>,
      <<"4", "2", "9", "4", "9", "6", "7", "2", "9", "7">>,
      <<"-", "1">>,
      <<"1", ".", "5">>,
      <<"x">>,
      <<>> }

HistoryEntry(alertDate, data, category) ==
    [alertDate |-> alertDate, data |-> data, category |-> category]

\* Date texts by the second they name: 200 s and 60 s before StartEpoch, a
\* second whose thousandth part is 60 s before StartEpoch, one whose
\* thousandth part is after StartEpoch, and a text chrono rejects.
S_Date200sAgo == <<"T", "1", "9", "9", "9", "8", "0", "0">>
S_Date60sAgo == <<"T", "1", "9", "9", "9", "9", "4", "0">>
S_DateThousandfold == <<"T", "1", "9", "9", "9", "9", "4", "0", "0", "0", "0">>
S_DateFarFuture == <<"T", "2", "1", "0", "0", "0", "0", "0", "0", "0", "0">>
S_DateFeedFormat == <<"2", "0", "2", "4">>

HistoryEntries ==
    { HistoryEntry(Str(S_Date200sAgo), Str(<<"D">>), Str(<<"1">>)),
      HistoryEntry(Str(S_Date60sAgo), Str(<<"A">>), Str(<<"2">>)),
      HistoryEntry(Str(S_DateThousandfold), Str(<<" ", "D", " ">>), Str(<<"2">>)),
      HistoryEntry(Str(S_DateThousandfold), Str(<<"B">>), Str(<<"3">>)),
      HistoryEntry(Str(S_DateThousandfold), Str(S_TestCity), Str(<<"1">>)),
      HistoryEntry(Str(S_DateFarFuture), Str(<<"B">>), Str(<<"1">>)),
      HistoryEntry(Str(S_DateFeedFormat), Str(<<"D">>), Str(<<"1">>)),
      HistoryEntry(Str(S_DateThousandfold), Null, Str(<<"1">>)),
      HistoryEntry(Str(S_DateThousandfold), Num(<<"7">>), Str(<<"1">>)) }

MaxEntries == 2

RECURSIVE SeqsUpTo(_, _)
SeqsUpTo(S, n) ==
    IF n = 0 THEN {<<>>}
    ELSE LET shorter == SeqsUpTo(S, n - 1)
         IN  shorter \cup { Append(q, e) : q \in shorter, e \in S }

HistoryPayloads ==
    { Array(q) : q \in SeqsUpTo(HistoryEntries, MaxEntries) }
    \cup { Array(<<HistoryEntry(Str(S_DateThousandfold), Str(<<"D">>), Str(c))>>) :
              c \in CategoryInputs }

LiveLocalities ==
    { << <<" ", "D", " ">>, <<"D">>, <<"Q">>, <<"A", "\n">>, <<"D">>, <<"A">> >>,
      << <<"B">>, S_TestCity, <<" ">> \o S_TestCity \o <<"\t">>, <<"A">>, <<"B">> >>,
      << <<"\t", "A">>, <<"a">>, <<"A", " ", "B">>, <<"A">> >>,
      << S_TestCity >>,
      << >> }

LivePayloads ==
    { Object(Strs(<<<<"D">>>>), Str(c), Absent) : c \in CategoryInputs }
    \cup { Object(Strs(l), Str(<<"1">>), Str(S_RocketFire)) : l \in LiveLocalities }
    \cup { Object(Absent, Str(<<"1">>), Absent),
           Object(Null, Str(<<"2">>), Absent),
           Object(Strs(<<<<"D">>>>), Absent, Absent),
           Object(Strs(<<<<"D">>>>), Num(<<"1">>), Absent) }

NormalizePayloads == LivePayloads \cup HistoryPayloads

\* The process once the gazetteer is loaded and the probe has passed, with
\* a payload in hand.
NormalizeInit ==
    /\ pc = "payload"
    /\ now = 0
    /\ cycle = 1
    /\ cities = Some(Gazetteer)
    /\ first_line = Some(S_ConnectedToRadio)
    /\ sender = NewSender
    /\ invoked = <<>>
    /\ \E json \in NormalizePayloads : resp = JsonBody(json)
    /\ alert = NoAlert
    /\ message = <<>>
    /\ valid_zones = {}
    /\ pending = {}
    /\ chan = 0
    /\ attempt = 0
    /\ tries = <<>>
    /\ sent = NothingSent
    /\ result = "none"

\* extract_alert_from_json on the payload, then process_alert from its
\* unwrap on (lines 260-291), as in ProcessAlert.  When the normalizer does
\* not return Ok, result keeps which it was: "err" or "panic".
Normalize ==
    /\ pc = "payload"
    /\ \E build \in Builds :
        LET extracted == extract_alert_from_json(resp.json[1], StartEpoch + now, build)
            zones     == ValidZones(cities[1], extracted.alert.cities)
        IN  IF extracted.st # "ok"
            THEN /\ pc' = "panicked"
                 /\ result' = extracted.st
                 /\ UNCHANGED <<alert, message, valid_zones, pending>>
            ELSE /\ alert' = extracted.alert
                 /\ IF IsNone(extracted.alert.alert_type)
                       \/ IsDrillOrTest(extracted.alert.alert_type)
                    THEN /\ pc' = "returned"
                         /\ result' = "ok"
                         /\ UNCHANGED <<message, valid_zones, pending>>
                    ELSE /\ valid_zones' = zones
                         /\ message' = FormatMessage(extracted.alert)
                         /\ pending' = Channels(zones)
                         /\ IF Channels(zones) = {}
                            THEN pc' = "returned" /\ result' = "ok"
                            ELSE pc' = "send" /\ UNCHANGED result
    /\ UNCHANGED <<now, cycle, cities, first_line, sender, invoked, resp,
                   chan, attempt, tries, sent>>

NormalizeNext ==
    \/ Normalize
    \/ StartSend
    \/ Attempt
    \/ LoopBack

SpecNormalize == NormalizeInit /\ [][NormalizeNext]_vars

---------------------------------------------------------------------------
(* The claims.                                                             *)

\* What the claims call a suppressed alert type: "none", or a label that
\* contains "drill" or "test" whatever its case.
ClaimSuppressed(alert_type) ==
    \/ alert_type = S_none
    \/ Contains(ToLowercase(alert_type), <<"d","r","i","l","l">>)
    \/ Contains(ToLowercase(alert_type), <<"t","e","s","t">>)

\* C1: no error raised in a cycle's fetch, normalize, resolve, dispatch chain
\* terminates the process: a malformed body, a payload of neither shape and
\* a send that exhausts its retries all leave the poll loop running.
C1_CycleErrorsNeverEndTheProcess == pc # "panicked"

\* C2: in a cycle whose alert_type is "none" or contains "drill" or "test"
\* (case-insensitively) the radio program is never started: no send is
\* begun, no attempt is made and nothing is sent on any channel.
C2_SuppressedNeverSends ==
    ClaimSuppressed(alert.alert_type) =>
        /\ sent = NothingSent
        /\ tries = <<>>
        /\ pending = {}
        /\ pc \notin {"send", "spawn"}

C2_Witness_DrillWithResolvedZone ==
    /\ pc = "returned"
    /\ alert.alert_type = S_missiles \o S_Drill
    /\ alert.cities = << <<"D">> >>
    /\ sent = NothingSent

\* C3: any two consecutive runs of the radio program, in one cycle or in
\* different cycles, start at least 10 seconds apart, and an attempt is only
\* made once 10 seconds have passed since last_message_time.
C3_GlobalPacing ==
    /\ Len(invoked) = 2 => invoked[2] - invoked[1] >= 10
    /\ (pc = "spawn" /\ sender.last_message_time # None)
           => now - sender.last_message_time[1] >= 10

C3_Witness_WaitedForTheFloor ==
    /\ Len(invoked) = 2
    /\ invoked[2] - invoked[1] = 10
    /\ Cardinality({c \in ChannelIds : sent[c] > 0}) = 2

\* C4: one send makes at most 4 attempts; every attempt before the last one
\* made has failed and is followed, 5 seconds later, by the next; a success
\* ends the send with Ok; the send reports an error exactly when 4 attempts
\* have failed, and nothing is attempted after that.
C4_RetryBudget ==
    /\ Len(tries) <= 4
    /\ \A i \in 1..(Len(tries) - 1) :
          /\ tries[i].outcome = "spawn_error"
          /\ tries[i + 1].t = tries[i].t + 5
    /\ (tries # <<>> /\ tries[Len(tries)].outcome # "spawn_error")
          => (pc \in {"send", "returned"} /\ result # "err")
    /\ (tries # <<>> /\ tries[Len(tries)].outcome = "spawn_error" /\ Len(tries) < 4)
          => (pc = "spawn" /\ now = tries[Len(tries)].t + 5 /\ result = "none")
    /\ result = "err" <=>
          (Len(tries) = 4 /\ \A i \in 1..4 : tries[i].outcome = "spawn_error")
    /\ result = "err" => pc = "returned"

C4_Witness_BudgetExhausted ==
    /\ result = "err"
    /\ Len(tries) = 4
    /\ tries[4].t = tries[1].t + 15

\* C5: the radio program runs at most once per channel in a cycle and only
\* on the cycle's channels: channel 0 alone when more than 6 zones resolved,
\* else the resolved zones; a cycle that returns Ok has run it once on each.
C5_ChannelSelection ==
    LET allowed == IF Cardinality(valid_zones) > 6 THEN {0} ELSE valid_zones
    IN  /\ \A c \in ChannelIds : sent[c] <= 1 /\ (sent[c] = 1 => c \in allowed)
        /\ (pc = "returned" /\ result = "ok") => \A c \in allowed : sent[c] = 1

C5_Witness_AllSevenBroadcast ==
    /\ pc = "returned"
    /\ result = "ok"
    /\ valid_zones = 1..7
    /\ sent = [c \in ChannelIds |-> IF c = 0 THEN 1 ELSE 0]

\* C6: an attempt whose radio program starts and exits with a failure status
\* is a failed attempt: it is retried within the budget or the send reports
\* an error, and it never counts as the send having succeeded.
C6_ExitStatusDecides ==
    \A i \in 1..Len(tries) :
        tries[i].outcome = "exit_failure" =>
            \/ i < Len(tries)
            \/ pc = "spawn"
            \/ result = "err"

\* What C7 calls a feed failure: no response, a status outside 2xx, an empty
\* body, or JSON without a data member.
ClaimFeedFailure(r) ==
    \/ r.net = "error"
    \/ /\ r.net = "ok"
       /\ \/ r.status \notin 200..299
          \/ r.read_ok /\ r.text = <<>>
          \/ /\ r.read_ok
             /\ r.json # None
             /\ ~(r.json[1].shape = "object" /\ r.json[1].data.k # "absent")

\* C7: on a feed failure the feed client returns the empty-alert payload,
\* the cycle normalizes it to "none" with no localities and returns Ok with
\* nothing sent and last_message_time untouched, and its only next step is
\* the loop's next tick.
C7_FeedFailuresAreNeutral ==
    /\ [](ClaimFeedFailure(resp) =>
             /\ get_hfc_alerts_json(resp) = JsonOk(EmptyAlertPayload)
             /\ pc \in {"fetched", "returned"}
             /\ alert = AlertResult(S_none, <<>>, None)
             /\ sent = NothingSent
             /\ tries = <<>>)
    /\ [][ClaimFeedFailure(resp) =>
             /\ sender' = sender
             /\ invoked' = invoked
             /\ pc = "fetched" => (pc' = "returned" /\ result' = "ok")
             /\ pc = "returned" => pc' = "tick"]_vars

C7_Witness_BadStatusCycleReturned ==
    /\ pc = "returned"
    /\ resp.status = 503
    /\ result = "ok"
    /\ sender.last_message_time # None

\* C8: an alert whose alert_type is "none" has no localities.
C8_NoneHasNoLocalities ==
    alert.alert_type = S_none => alert.cities = <<>>

\* The zones the claim assigns to a list of localities: the zone numbers of
\* the gazetteer entries their names match exactly.
GazetteerMatches(name) ==
    {i \in 1..Len(Gazetteer) : Gazetteer[i].name = name}

ClaimZones(localities) ==
    UNION { LET m == GazetteerMatches(localities[k])
            IN  IF m = {} THEN {}
                ELSE LET first == CHOOSE i \in m : \A j \in m : i <= j
                     IN  {z \in 1..7 :
                             get_zone_number(Gazetteer[first].zone_en) = Some(z)}
            : k \in 1..Len(localities) }

\* C9: the zone set of a cycle that is not suppressed is exactly the zones
\* (each in 1..7) of the localities with an exact-name gazetteer match; a
\* cycle none of whose localities resolves returns Ok with nothing sent.
C9_ZoneResolution ==
    /\ valid_zones \subseteq 1..7
    /\ (pc \in {"send", "spawn", "returned"} /\ ~ClaimSuppressed(alert.alert_type))
          => LET zones == ClaimZones(alert.cities)
             IN  /\ valid_zones = zones
                 /\ zones = {} =>
                       (pc = "returned" /\ result = "ok" /\ sent = NothingSent)

C9_Witness_TestLocalityOnly ==
    /\ pc = "returned"
    /\ resp.json # None
    /\ resp.json[1].data = Strs(<<S_TestCity>>)
    /\ alert.alert_type = S_missiles
    /\ alert.cities = <<>>
    /\ valid_zones = {}
    /\ sent = NothingSent

\* C10: the poll loop runs only with the gazetteer loaded and the probe's
\* first line equal to "Connected to radio"; otherwise the process has
\* exited with nothing fetched or sent, and it takes no step after exiting.
C10_StartupGating ==
    /\ [](cities = None => pc \in {"start", "exited"})
    /\ [](first_line # Some(S_ConnectedToRadio) => pc \in {"start", "probe", "exited"})
    /\ [](pc \in {"start", "probe", "exited"} =>
             /\ cycle = 0
             /\ resp = NoResponse
             /\ invoked = <<>>
             /\ sent = NothingSent
             /\ sender.last_message_time = None)
    /\ [][pc # "exited"]_vars

C10_Witness_LoopFetching ==
    /\ pc = "fetched"
    /\ cycle = 1
    /\ cities = Some(Gazetteer)
    /\ first_line = Some(S_ConnectedToRadio)


\* A cycle is in progress from its tick until the loop has taken back its
\* result; a send is in progress while its attempt loop runs.
ClaimCycleInProgress == pc \in {"fetched", "send", "spawn", "returned"}
ClaimSendInProgress == pc = "spawn"

\* C11: cycles are strictly serialized and the sends of a cycle run one
\* after another.  A cycle starts only when no cycle is in progress and
\* nothing of the previous one is left; a send starts only when no send is
\* in progress and the previous send of the cycle has ended with the radio
\* program run; last_message_time is written only by the one send in
\* progress.
C11_CyclesAndSendsSerialized ==
    [][ /\ (cycle' # cycle =>
              /\ ~ClaimCycleInProgress
              /\ ~ClaimSendInProgress
              /\ CycleIdle
              /\ cycle' = cycle + 1)
        /\ (chan' # chan \/ (pc' = "spawn" /\ tries' = <<>>) =>
              \/ pc' = "tick"
              \/ /\ ~ClaimSendInProgress
                 /\ ClaimCycleInProgress
                 /\ cycle' = cycle
                 /\ tries = <<>> \/ SpawnOk(tries[Len(tries)].outcome))
        /\ (sender' # sender =>
              /\ ClaimSendInProgress
              /\ cycle' = cycle
              /\ chan' = chan) ]_vars

C11_Witness_SecondCycleSecondSend ==
    /\ cycle = 2
    /\ pc = "spawn"
    /\ attempt > 0
    /\ sent # NothingSent
    /\ pending # {}
    /\ Len(invoked) = 2


\* A locality that has the test marker somewhere in it.
ClaimTestMarked(locality) ==
    \E i \in 1..Len(locality) :
        /\ i + Len(TestMarker) - 1 <= Len(locality)
        /\ \A j \in 1..Len(TestMarker) : locality[i + j - 1] = TestMarker[j]

\* The localities a payload names, as texts: the members of a live object's
\* data, or the data of a historical array's entries.
ClaimPayloadLocalities(json) ==
    IF json.shape = "array"
    THEN {json.entries[i].data.s : i \in {k \in 1..Len(json.entries) :
                                             json.entries[k].data.k = "string"}}
    ELSE {json.data.l[i] : i \in 1..Len(json.data.l)}

\* C12: whatever the payload's schema, no locality that contains the test
\* marker is among the normalized alert's localities, and the zones of the
\* cycle are zones of localities that do not contain it.
C12_TestEntriesFiltered ==
    pc # "payload" =>
        /\ \A i \in 1..Len(alert.cities) : ~ClaimTestMarked(alert.cities[i])
        /\ \A z \in valid_zones :
              \E l \in ClaimPayloadLocalities(resp.json[1]) :
                  /\ ~ClaimTestMarked(l)
                  /\ z \in ClaimZones(<<Trim(l)>>)

C12_Witness_TestEntriesDropped ==
    /\ pc = "returned"
    /\ result = "ok"
    /\ resp.json[1].shape = "object"
    /\ \E l \in ClaimPayloadLocalities(resp.json[1]) : ClaimTestMarked(l)
    /\ Len(alert.cities) = 2
    /\ sent[1] = 1 /\ sent[2] = 1

C12_Witness_HistoryTestEntryDropped ==
    /\ pc = "returned"
    /\ resp.json[1].shape = "array"
    /\ Len(resp.json[1].entries) = 2
    /\ \E l \in ClaimPayloadLocalities(resp.json[1]) : ClaimTestMarked(l)
    /\ alert.cities = << <<"B">> >>
    /\ sent[2] = 1


\* A historical entry with its three members present and a date that names
\* a second, and that second.
ClaimDated(entry) ==
    /\ entry.alertDate.k = "string"
    /\ entry.data.k = "string"
    /\ entry.category.k = "string"
    /\ Len(entry.alertDate.s) > 1
    /\ Head(entry.alertDate.s) = "T"

ClaimTimestamp(entry) == DecimalValue(Tail(entry.alertDate.s))

\* The payload is normalized when the process clock reads StartEpoch.
ClaimStale(entry) ==
    ClaimDated(entry) /\ StartEpoch - ClaimTimestamp(entry) > 120

\* C13: a historical entry more than 120 s old gives the result neither its
\* locality nor its category, and an array of stale entries only is
\* normalized to "none" with no localities and the cycle sends nothing.
C13_StaleEntriesExcluded ==
    (pc \in {"send", "spawn", "returned", "panicked"}
     /\ resp.json[1].shape = "array") =>
        LET entries == resp.json[1].entries
        IN  /\ \A i \in 1..Len(alert.cities) :
                  \E k \in 1..Len(entries) :
                      /\ ClaimDated(entries[k])
                      /\ ~ClaimStale(entries[k])
                      /\ Trim(entries[k].data.s) = alert.cities[i]
            /\ alert.alert_type # S_none =>
                  \E k \in 1..Len(entries) :
                      /\ ClaimDated(entries[k])
                      /\ ~ClaimStale(entries[k])
                      /\ get_alert_type_by_historical_category(entries[k].category.s)
                         = alert.alert_type
            /\ (entries # <<>> /\ \A k \in 1..Len(entries) : ClaimStale(entries[k])) =>
                  /\ pc = "returned"
                  /\ result = "ok"
                  /\ alert = NoAlert
                  /\ sent = NothingSent
                  /\ tries = <<>>
                  /\ invoked = <<>>

C13_Witness_OneEntry200sOld ==
    /\ pc = "returned"
    /\ resp.json[1].shape = "array"
    /\ Len(resp.json[1].entries) = 1
    /\ ClaimStale(resp.json[1].entries[1])
    /\ StartEpoch - ClaimTimestamp(resp.json[1].entries[1]) >= 200
    /\ alert = NoAlert


\* The two tables as the claims give them: the label of each listed code,
\* written as a decimal number, and "unknown" for every other text.
ClaimLiveLabel(category) ==
    CASE category = <<"1">> -> S_missiles
      [] category = <<"2">> -> S_general
      [] category = <<"3">> -> S_earthQuake
      [] category = <<"4">> -> S_radiologicalEvent
      [] category = <<"5">> -> S_tsunami
      [] category = <<"6">> -> S_hostileAircraftIntrusion
      [] category = <<"7">> -> S_hazardousMaterials
      [] category = <<"1", "3">> -> S_terroristInfiltration
      [] category = <<"1", "0", "1">> -> S_missiles \o S_Drill
      [] category = <<"1", "0", "2">> -> S_general \o S_Drill
      [] category = <<"1", "0", "3">> -> S_earthQuake \o S_Drill
      [] category = <<"1", "0", "4">> -> S_radiologicalEvent \o S_Drill
      [] category = <<"1", "0", "5">> -> S_tsunami \o S_Drill
      [] category = <<"1", "0", "6">> -> S_hostileAircraftIntrusion \o S_Drill
      [] category = <<"1", "0", "7">> -> S_hazardousMaterials \o S_Drill
      [] category = <<"1", "1", "3">> -> S_terroristInfiltration \o S_Drill
      [] OTHER -> S_unknown

ClaimHistoricalLabel(category) ==
    CASE category = <<"1">> -> S_missiles
      [] category = <<"2">> -> S_hostileAircraftIntrusion
      [] category = <<"3">> -> S_general
      [] category = <<"4">> -> S_general
      [] category = <<"7">> -> S_earthQuake
      [] category = <<"9">> -> S_radiologicalEvent
      [] category = <<"1", "0">> -> S_terroristInfiltration
      [] category = <<"1", "1">> -> S_tsunami
      [] category = <<"1", "2">> -> S_hazardousMaterials
      [] OTHER -> S_unknown

\* C14: the category mapping is total and specific to the schema.  A live
\* payload with a category text is normalized without error to the live
\* table's label of that text, a historical entry that is kept gives the
\* historical table's label of its category, and any text that is not a
\* listed code gives "unknown"; an alert labelled "unknown" has its zones
\* resolved and is sent to them.
C14_CategoryMapping ==
    pc \in {"send", "spawn", "returned", "panicked"} =>
        LET json == resp.json[1]
        IN  /\ (json.shape = "object" /\ json.cat.k = "string"
                /\ json.data.k \in {"strings", "absent", "null"}) =>
                  /\ pc # "panicked"
                  /\ alert.alert_type = ClaimLiveLabel(json.cat.s)
            /\ (json.shape = "array" /\ Len(json.entries) = 1
                /\ json.entries[1].alertDate = Str(S_DateThousandfold)
                /\ json.entries[1].data = Str(<<"D">>)) =>
                  /\ pc # "panicked"
                  /\ alert.cities = << <<"D">> >>
                  /\ alert.alert_type = ClaimHistoricalLabel(json.entries[1].category.s)
            /\ alert.alert_type = S_unknown =>
                  /\ valid_zones = ClaimZones(alert.cities)
                  /\ valid_zones # {} =>
                        \/ pc \in {"send", "spawn"}
                        \/ /\ pc = "returned"
                           /\ tries # <<>>
                           /\ result = "ok" => \A z \in valid_zones : sent[z] = 1

C14_Witness_UnknownDispatched ==
    /\ pc = "returned"
    /\ result = "ok"
    /\ resp.json[1].shape = "array"
    /\ Len(resp.json[1].entries) = 1
    /\ resp.json[1].entries[1].category = Str(<<"5">>)
    /\ alert.alert_type = S_unknown
    /\ sent[4] = 1

C14_Witness_CodeTwoHistorical ==
    /\ pc = "returned"
    /\ resp.json[1].shape = "array"
    /\ Len(resp.json[1].entries) = 1
    /\ resp.json[1].entries[1].category = Str(<<"2">>)
    /\ alert.alert_type = S_hostileAircraftIntrusion
    /\ alert.alert_type # ClaimLiveLabel(<<"2">>)


\* The entries of a historical array the claims keep: dated, not stale, and
\* without the test marker in the locality.
ClaimKept(entries) ==
    {k \in 1..Len(entries) :
        /\ ClaimDated(entries[k])
        /\ ~ClaimStale(entries[k])
        /\ ~ClaimTestMarked(entries[k].data.s)}

\* No entry of the array is dated after the moment it is normalized.
ClaimNoneFromTheFuture(entries) ==
    \A k \in 1..Len(entries) :
        ClaimDated(entries[k]) => ClaimTimestamp(entries[k]) <= StartEpoch

\* C15: a historical array (of entries dated now or earlier) is normalized
\* to the trimmed localities of exactly its entries that are neither stale
\* (more than 120 s old) nor test-marked, and to the historical label of
\* the last of them, "none" when there is none.
C15_HistoryKeepsFreshLastWins ==
    (pc \in {"send", "spawn", "returned"} /\ resp.json[1].shape = "array"
     /\ ClaimNoneFromTheFuture(resp.json[1].entries)) =>
        LET entries == resp.json[1].entries
            kept    == ClaimKept(entries)
        IN  /\ \A k \in kept :
                  \E i \in 1..Len(alert.cities) :
                      alert.cities[i] = Trim(entries[k].data.s)
            /\ \A i \in 1..Len(alert.cities) :
                  \E k \in kept : alert.cities[i] = Trim(entries[k].data.s)
            /\ alert.alert_type =
                  IF kept = {} THEN S_none
                  ELSE LET last == CHOOSE k \in kept : \A j \in kept : j <= k
                       IN  ClaimHistoricalLabel(entries[last].category.s)


\* C16: last_message_time is written only by the attempt of a send that
\* runs the radio program, and is set to the time of that attempt; every
\* other step (a failed attempt, the end of an exhausted send, a suppressed
\* cycle, a cycle without zones, a cycle ending in an error, the loop's own
\* steps) leaves it as it was.  It is unset until the radio program has
\* first been run, and it never moves backwards.
C16_LastSendTimeFrame ==
    /\ [][ sender' # sender =>
              /\ pc = "spawn"
              /\ Len(tries') = Len(tries) + 1
              /\ SpawnOk(tries'[Len(tries')].outcome)
              /\ sender'.last_message_time = Some(tries'[Len(tries')].t)
              /\ sender'.last_message_time = Some(now)
              /\ sender.last_message_time # None =>
                    sender.last_message_time[1] < sender'.last_message_time[1] ]_vars
    /\ [][ (pc # "spawn" \/ ~SpawnOk(tries'[Len(tries')].outcome)) =>
              sender' = sender ]_vars
    /\ [](sender.last_message_time = None <=> invoked = <<>>)
    /\ [](sender.last_message_time # None =>
             /\ sender.last_message_time[1] = invoked[Len(invoked)]
             /\ sender.last_message_time[1] <= now)

C16_Witness_ExhaustedSendLeavesIt ==
    /\ pc = "returned"
    /\ result = "err"
    /\ cycle = 2
    /\ sent = NothingSent
    /\ sender.last_message_time # None
    /\ sender.last_message_time[1] < tries[1].t


\* t is r without the whitespace around it.
ClaimIsTrimOf(t, r) ==
    \E a \in 0..Len(r), b \in 0..Len(r) :
        /\ a + b <= Len(r)
        /\ t = SubSeq(r, a + 1, Len(r) - b)
        /\ \A i \in 1..a : r[i] \in WhiteSpace
        /\ \A i \in (Len(r) - b + 1)..Len(r) : r[i] \in WhiteSpace
        /\ t # <<>> => t[1] \notin WhiteSpace /\ t[Len(t)] \notin WhiteSpace

\* Where a trimmed locality first occurs among the payload's entries.
ClaimFirstSeen(t, raw) ==
    CHOOSE k \in 1..Len(raw) :
        /\ ClaimIsTrimOf(t, raw[k])
        /\ \A j \in 1..(k - 1) : ~ClaimIsTrimOf(t, raw[j])

\* C17: the localities of a live payload are its cities entries trimmed,
\* without the test-marked ones and without repeats, in the order in which
\* each is first seen; a payload without a cities list has none.
C17_LiveLocalities ==
    (pc \in {"send", "spawn", "returned"} /\ resp.json[1].shape = "object") =>
        LET raw == resp.json[1].data.l
            out == alert.cities
        IN  /\ \A i \in 1..Len(out) :
                  \E k \in 1..Len(raw) :
                      ClaimIsTrimOf(out[i], raw[k]) /\ ~ClaimTestMarked(raw[k])
            /\ \A k \in 1..Len(raw) :
                  ~ClaimTestMarked(raw[k]) =>
                      \E i \in 1..Len(out) : ClaimIsTrimOf(out[i], raw[k])
            /\ \A i, j \in 1..Len(out) : i < j =>
                  /\ out[i] # out[j]
                  /\ ClaimFirstSeen(out[i], raw) < ClaimFirstSeen(out[j], raw)
            /\ resp.json[1].data.k # "strings" => out = <<>>

C17_Witness_TrimmedDeduplicatedInOrder ==
    /\ pc = "returned"
    /\ result = "ok"
    /\ resp.json[1].shape = "object"
    /\ Len(resp.json[1].data.l) = 6
    /\ alert.cities = << <<"D">>, <<"Q">>, <<"A">> >>
    /\ sent[4] = 1 /\ sent[1] = 1

C17_Witness_NoCitiesList ==
    /\ pc = "returned"
    /\ resp.json[1].shape = "object"
    /\ resp.json[1].data = Absent
    /\ alert.alert_type = S_missiles
    /\ alert.cities = <<>>


\* The send in progress has failed to run the radio program on each of its
\* Retries + 1 attempts.
ClaimExhausted ==
    /\ Len(tries) = Retries + 1
    /\ \A i \in 1..Len(tries) : ~SpawnOk(tries[i].outcome)

\* C18: when a send has failed all its attempts the cycle ends there with
\* an error: the channels still pending get no attempt, what the cycle has
\* sent and last_message_time stay as they were, and the only step left is
\* the loop taking the error and going back, idle, to wait for the next
\* tick.  A cycle returns an error in no other case.
C18_ExhaustionEndsTheCycleOnly ==
    /\ [](ClaimExhausted =>
             /\ pc = "returned"
             /\ result = "err"
             /\ pending = {}
             /\ sent[chan] = 0
             /\ \A c \in ChannelIds : sent[c] <= 1)
    /\ [](result = "err" => ClaimExhausted)
    /\ [][ ClaimExhausted' /\ ~ClaimExhausted =>
              /\ sent' = sent
              /\ sender' = sender
              /\ invoked' = invoked ]_vars
    /\ [][ ClaimExhausted =>
              /\ pc' = "tick"
              /\ CycleIdle'
              /\ cycle' = cycle
              /\ sender' = sender
              /\ invoked' = invoked
              /\ cities' = cities ]_vars
    /\ [][ pc = "tick" => pc' = "fetched" /\ resp' \in Responses ]_vars

C18_Witness_SecondZoneExhausted ==
    /\ ClaimExhausted
    /\ pc = "returned"
    /\ Cardinality(valid_zones) = 6
    /\ Cardinality({c \in ChannelIds : sent[c] = 1}) = 1
    /\ sender.last_message_time # None


\* The channels and the text of a cycle as the claims give them, from the
\* cycle's alert and the gazetteer alone.  The text is given for
\* instructions without characters that need escaping.
ClaimChannels(a) ==
    IF ClaimSuppressed(a.alert_type) THEN {}
    ELSE LET zones == ClaimZones(a.cities)
         IN  IF zones = 1..7 THEN {0} ELSE zones

ClaimMessage(a) ==
    IF a.instructions = None THEN <<Siren>> \o a.alert_type
    ELSE <<Siren>> \o a.alert_type \o <<" ", "-", " ", "\"">>
         \o a.instructions[1] \o <<"\"">>

\* C19: what a cycle sends is decided by its own alert and the gazetteer,
\* whatever earlier cycles fetched or sent: the channels sent to, in
\* progress and still pending are those of the alert, the text is that of
\* the alert, and a cycle that returns Ok has sent once to each of them.
C19_DispatchMemoryless ==
    pc \in {"send", "spawn", "returned"} =>
        LET target   == ClaimChannels(alert)
            sentTo   == {c \in ChannelIds : sent[c] > 0}
            inFlight == IF pc = "spawn" THEN {chan} ELSE {}
        IN  /\ sentTo \cup inFlight \cup pending \subseteq target
            /\ result # "err" => sentTo \cup inFlight \cup pending = target
            /\ result = "ok" => \A c \in target : sent[c] = 1
            /\ target # {} => message = ClaimMessage(alert)

C19_Witness_SameAlertSentAgain ==
    /\ cycle = 2
    /\ pc = "returned"
    /\ result = "ok"
    /\ alert = AlertResult(S_missiles, <<S_TelAviv>>, Some(S_RocketFire))
    /\ sent[4] = 1
    /\ message = <<Siren>> \o S_missiles \o <<" ", "-", " ", "\"">>
                 \o S_RocketFire \o <<"\"">>
    /\ invoked = <<0, MinSendInterval>>


\* C20: a cycle that has something to send gets to the end of its sends:
\* after its pacing waits and retry delays it returns, having run the radio
\* program once for every channel of its zones (the broadcast channel alone
\* when all seven are affected) unless a send used up its attempts; the
\* loop then takes the result and waits for the next tick, and the next
\* tick's cycle starts.
C20_DeliveryLiveness ==
    /\ (pc \in {"send", "spawn"}) ~>
          (/\ pc = "returned"
           /\ \/ result = "err"
              \/ /\ result = "ok"
                 /\ \A c \in ClaimChannels(alert) : sent[c] = 1)
    /\ (pc = "returned") ~> (pc = "tick" /\ CycleIdle)
    /\ (pc = "tick" /\ cycle < MaxCycles) ~> (pc = "fetched")

C20_Witness_PacedRetriedDelivered ==
    /\ pc = "returned"
    /\ result = "ok"
    /\ cycle = 2
    /\ Cardinality(valid_zones) = 2
    /\ \A z \in valid_zones : sent[z] = 1
    /\ Len(tries) = Retries + 1
    /\ Len(invoked) = 2 /\ invoked[2] - invoked[1] > MinSendInterval

=============================================================================
